---- MODULE Spec2Model ----
(***************************************************************************)
(* Token-passing keyword spotter (app/src/main/jni/kws/keyword-spot.h).    *)
(*                                                                         *)
(* Floats are modelled as fixed-point integers with resolution 1/Scale:    *)
(* a linear score 0.95 is 950, a log score ln(0.95) is -51.  Float         *)
(* division is the floor quotient on that grid.                            *)
(***************************************************************************)
EXTENDS Integers, Sequences, FiniteSets, TLC

\* ------------------------------------------------------------------ numbers
Scale == 1000

\* The ceiling of the overflow guard as the source sets it.
kMaxTokenPassingFrames == 100 * 60 * 10

\* The ceiling used by the exhaustive specification, scaled down so that the
\* guard is reached within the explored number of frames.
OverflowCeiling == 3

\* Spot calls explored after construction or Reset (exhaustive specification).
MaxFrames == OverflowCeiling + 2

\* Frames fed in the legality-gating scenario (5 filler, 2 phone-2, 2 phone-3).
MaxGateFrames == 9

DefaultSpotThreshold == Scale \div 2
DefaultMinKeywordFrames == 0
DefaultMinFramesForLastState == 5

\* logf on the linear scores the model feeds: round(Scale * ln(x / Scale)).
LogTable ==
  [x \in {100, 500, 900, 950, 1000} |->
     CASE x = 100 -> -2303
       [] x = 500 -> -693
       [] x = 900 -> -105
       [] x = 950 -> -51
       [] x = 1000 -> 0]

Logf(x) == LogTable[x]

\* Taylor series of exp(y / Scale) * Scale for y >= 0, summed until the term
\* vanishes on the grid.
RECURSIVE ExpSeries(_, _, _, _)
ExpSeries(y, n, term, sum) ==
  IF term = 0 THEN sum
  ELSE ExpSeries(y, n + 1, (term * y) \div (n * Scale), sum + term)

\* expf on the grid: exp(x) = 1 / exp(-x) for x < 0; underflows to 0.
Expf(x) ==
  IF x >= 0 THEN ExpSeries(x, 1, Scale, 0)
  ELSE IF x < -7 * Scale THEN 0
  ELSE (Scale * Scale) \div ExpSeries(-x, 1, Scale, 0)

\* Float quotient on the grid.
FDiv(a, b) == a \div b

Max(a, b) == IF a >= b THEN a ELSE b

\* ------------------------------------------------------------------- Token
\* Token::Token() and Token::Reset() produce the same value.
TokenReset ==
  [active |-> FALSE,
   is_filler |-> TRUE,
   score |-> 0,
   num_keyword_frames |-> 0,
   average_keyword_score |-> 0,
   keyword |-> 0,
   num_frames_of_current_state |-> 0,
   num_keyword_states |-> 0,
   max_score_of_current_state |-> 0,
   average_max_keyword_score |-> 0,
   average_max_keyword_score_before |-> 0]

\* The competition won by every update, so that the last attempt stays.
WinsAlways(self, prev, am_score) == TRUE

\* The competition with <= in place of <: a later update wins a tie.
WinsTies(self, prev, am_score) ==
  ~self.active \/ (self.active /\ self.score <= prev.score + am_score)

\* The score competition of Token::Update.
Wins(self, prev, am_score) ==
  ~self.active \/ (self.active /\ self.score < prev.score + am_score)

\* The CHECK demanding more than one keyword state.
UpdateFailsOffByOne(self, prev, is_self_arc, is_filler, am_score) ==
  /\ Wins(self, prev, am_score)
  /\ ~is_filler
  /\ is_self_arc
  /\ ~(prev.num_keyword_states > 1)

\* CHECK(num_keyword_states > 0) of Token::Update fails.
UpdateFails(self, prev, is_self_arc, is_filler, am_score) ==
  /\ Wins(self, prev, am_score)
  /\ ~is_filler
  /\ is_self_arc
  /\ ~(prev.num_keyword_states > 0)

\* KeywordStats with the dwell count restarted on a self arc.
KeywordStatsNoDwell(self, prev, olabel, is_self_arc, am_score) ==
  LET t == prev.num_keyword_frames
      dwell == 1
      states == IF is_self_arc THEN prev.num_keyword_states
                ELSE prev.num_keyword_states + 1
      peak == IF is_self_arc THEN Max(prev.max_score_of_current_state, am_score)
              ELSE am_score
      before == IF is_self_arc THEN prev.average_max_keyword_score_before
                ELSE prev.average_max_keyword_score
  IN [self EXCEPT
        !.average_keyword_score =
            FDiv(am_score + prev.average_keyword_score * t, t + 1),
        !.num_keyword_frames = t + 1,
        !.num_frames_of_current_state = dwell,
        !.num_keyword_states = states,
        !.max_score_of_current_state = peak,
        !.average_max_keyword_score_before = before,
        !.average_max_keyword_score =
            IF states > 0 THEN FDiv(peak + before * (states - 1), states)
            ELSE @,
        !.keyword = IF olabel # 0 THEN olabel ELSE @]

\* KeywordStats counting keyword frames from this token, not from prev.
KeywordStatsSelfCount(self, prev, olabel, is_self_arc, am_score) ==
  LET t == self.num_keyword_frames
      dwell == IF is_self_arc THEN prev.num_frames_of_current_state + 1 ELSE 1
      states == IF is_self_arc THEN prev.num_keyword_states
                ELSE prev.num_keyword_states + 1
      peak == IF is_self_arc THEN Max(prev.max_score_of_current_state, am_score)
              ELSE am_score
      before == IF is_self_arc THEN prev.average_max_keyword_score_before
                ELSE prev.average_max_keyword_score
  IN [self EXCEPT
        !.average_keyword_score =
            FDiv(am_score + prev.average_keyword_score * t, t + 1),
        !.num_keyword_frames = t + 1,
        !.num_frames_of_current_state = dwell,
        !.num_keyword_states = states,
        !.max_score_of_current_state = peak,
        !.average_max_keyword_score_before = before,
        !.average_max_keyword_score =
            IF states > 0 THEN FDiv(peak + before * (states - 1), states)
            ELSE @,
        !.keyword = IF olabel # 0 THEN olabel ELSE @]

\* KeywordStats not counting the state a non-self arc enters.
KeywordStatsKeepStates(self, prev, olabel, is_self_arc, am_score) ==
  LET t == prev.num_keyword_frames
      dwell == IF is_self_arc THEN prev.num_frames_of_current_state + 1 ELSE 1
      states == prev.num_keyword_states
      peak == IF is_self_arc THEN Max(prev.max_score_of_current_state, am_score)
              ELSE am_score
      before == IF is_self_arc THEN prev.average_max_keyword_score_before
                ELSE prev.average_max_keyword_score
  IN [self EXCEPT
        !.average_keyword_score =
            FDiv(am_score + prev.average_keyword_score * t, t + 1),
        !.num_keyword_frames = t + 1,
        !.num_frames_of_current_state = dwell,
        !.num_keyword_states = states,
        !.max_score_of_current_state = peak,
        !.average_max_keyword_score_before = before,
        !.average_max_keyword_score =
            IF states > 0 THEN FDiv(peak + before * (states - 1), states)
            ELSE @,
        !.keyword = IF olabel # 0 THEN olabel ELSE @]

\* The keyword branch of Token::Update (the update won and !is_filler).
KeywordStats(self, prev, olabel, is_self_arc, am_score) ==
  LET t == prev.num_keyword_frames
      dwell == IF is_self_arc THEN prev.num_frames_of_current_state + 1 ELSE 1
      states == IF is_self_arc THEN prev.num_keyword_states
                ELSE prev.num_keyword_states + 1
      peak == IF is_self_arc THEN Max(prev.max_score_of_current_state, am_score)
              ELSE am_score
      before == IF is_self_arc THEN prev.average_max_keyword_score_before
                ELSE prev.average_max_keyword_score
  IN [self EXCEPT
        !.average_keyword_score =
            FDiv(am_score + prev.average_keyword_score * t, t + 1),
        !.num_keyword_frames = t + 1,
        !.num_frames_of_current_state = dwell,
        !.num_keyword_states = states,
        !.max_score_of_current_state = peak,
        !.average_max_keyword_score_before = before,
        !.average_max_keyword_score =
            IF states > 0 THEN FDiv(peak + before * (states - 1), states)
            ELSE @,
        !.keyword = IF olabel # 0 THEN olabel ELSE @]

\* Update setting is_filler only when the update wins.
UpdateFlagOnWin(self, prev, olabel, is_self_arc, is_filler, am_score) ==
  LET scored == IF Wins(self, prev, am_score)
                THEN [self EXCEPT !.score = prev.score + am_score,
                                  !.is_filler = is_filler]
                ELSE self
      stats == IF Wins(self, prev, am_score) /\ ~is_filler
               THEN KeywordStats(scored, prev, olabel, is_self_arc, am_score)
               ELSE scored
  IN [stats EXCEPT !.active = TRUE]

\* Update with the frame's log score subtracted from the path score.
UpdateScoreDifference(self, prev, olabel, is_self_arc, is_filler, am_score) ==
  LET scored == IF Wins(self, prev, am_score)
                THEN [self EXCEPT !.score = prev.score - am_score]
                ELSE self
      stats == IF Wins(self, prev, am_score) /\ ~is_filler
               THEN KeywordStats(scored, prev, olabel, is_self_arc, am_score)
               ELSE scored
  IN [stats EXCEPT !.active = TRUE, !.is_filler = is_filler]

\* Token::Update, for a call whose CHECK passes.
Update(self, prev, olabel, is_self_arc, is_filler, am_score) ==
  LET scored == IF Wins(self, prev, am_score)
                THEN [self EXCEPT !.score = prev.score + am_score]
                ELSE self
      stats == IF Wins(self, prev, am_score) /\ ~is_filler
               THEN KeywordStats(scored, prev, olabel, is_self_arc, am_score)
               ELSE scored
  IN [stats EXCEPT !.active = TRUE, !.is_filler = is_filler]

\* -------------------------------------------------- Fst and filler table
\* An Fst is [num_states, arcs, finals]: arcs[i] is the sequence ArcStart(i) ..
\* ArcEnd(i) of [ilabel, olabel, next_state]; states are 0 .. num_states - 1.
NumStates(fst) == fst.num_states

ArcsOf(fst, i) == fst.arcs[i]

IsFinal(fst, i) == i \in fst.finals

HaveId(table, id) == id \in table

IsFillerPhone(filler_table, phone) == HaveId(filler_table, phone)

States(fst) == 0 .. (NumStates(fst) - 1)

Arc(ilabel, olabel, next_state) ==
  [ilabel |-> ilabel, olabel |-> olabel, next_state |-> next_state]

\* The legality-gating transducer: filler loop at 0, phone 2 into and at 1,
\* phone 3 (olabel 7) into and at the final state 2.
GateFst ==
  [num_states |-> 3,
   arcs |-> [i \in 0 .. 2 |->
      CASE i = 0 -> <<Arc(1, 0, 0), Arc(2, 0, 1)>>
        [] i = 1 -> <<Arc(2, 0, 1), Arc(3, 7, 2)>>
        [] i = 2 -> <<Arc(3, 0, 2)>>],
   finals |-> {2}]

\* The keyword is emitted on the first arc; state 2 is entered over a keyword
\* arc and over a filler arc; the start state is final too.
LoopFst ==
  [num_states |-> 3,
   arcs |-> [i \in 0 .. 2 |->
      CASE i = 0 -> <<Arc(1, 0, 0), Arc(2, 7, 1)>>
        [] i = 1 -> <<Arc(2, 0, 1), Arc(3, 0, 2), Arc(1, 0, 2)>>
        [] i = 2 -> <<Arc(1, 0, 0)>>],
   finals |-> {0, 2}]

\* State 1 is entered over a filler arc or a keyword arc and loops on the
\* keyword phone.
ForkFst ==
  [num_states |-> 2,
   arcs |-> [i \in 0 .. 1 |->
      CASE i = 0 -> <<Arc(1, 0, 0), Arc(1, 0, 1), Arc(2, 5, 1)>>
        [] i = 1 -> <<Arc(2, 0, 1)>>],
   finals |-> {1}]

\* The start state is left for good; state 1 is entered over a filler arc or a
\* keyword arc and loops on another keyword phone.
LeaveFst ==
  [num_states |-> 2,
   arcs |-> [i \in 0 .. 1 |->
      CASE i = 0 -> <<Arc(1, 0, 1), Arc(2, 5, 1)>>
        [] i = 1 -> <<Arc(3, 0, 1)>>],
   finals |-> {1}]

Fsts == {GateFst, LoopFst, ForkFst, LeaveFst}

FillerTable == {1}

\* ------------------------------------------------------------ score frames
\* am_score vectors of the exhaustive specification: one phone dominant, or
\* all phones at 1.0.
Frames ==
  { <<950, 500, 500>>, <<500, 950, 500>>, <<500, 500, 950>>,
    <<1000, 1000, 1000>> }

LowScores == {100, 500}

\* The k-th frame of the legality-gating scenario: phone 1 at 0.9 for five
\* frames, phone 2 at 0.95 for two, then phone 3 at 0.95; the other phones
\* lower.
GateFramesAt(k) ==
  IF k <= 5 THEN { <<900, a, b>> : a \in LowScores, b \in LowScores }
  ELSE IF k <= 7 THEN { <<a, 950, b>> : a \in LowScores, b \in LowScores }
  ELSE { <<a, b, 950>> : a \in LowScores, b \in LowScores }

\* ------------------------------------------------------------- propagation
\* What the winning path into a state has traversed: the last non-zero olabel
\* and the number of non-filler arcs.
PathReset == [keyword |-> 0, num_keyword_frames |-> 0]

PathExtend(p, olabel, is_filler) ==
  [keyword |-> IF olabel # 0 THEN olabel ELSE p.keyword,
   num_keyword_frames |-> p.num_keyword_frames + (IF is_filler THEN 0 ELSE 1)]

\* The three CHECKs on an arc in Spot.
ArcFails(fst, arc, num) ==
  \/ ~(arc.next_state >= 0)
  \/ ~(arc.next_state < NumStates(fst))
  \/ ~(arc.ilabel <= num)

\* The body of the arc loop of Spot for one arc of an active state i.
PropagateArc(fst, filler_table, prev, ppath, am_score, acc, i, arc) ==
  IF acc.failed \/ ArcFails(fst, arc, Len(am_score))
  THEN [acc EXCEPT !.failed = TRUE]
  ELSE
    LET score == Logf(am_score[arc.ilabel])
        is_filler == IsFillerPhone(filler_table, arc.ilabel)
        is_self_arc == (i = arc.next_state)
        self == acc.cur[arc.next_state]
    IN [cur |-> [acc.cur EXCEPT ![arc.next_state] =
                   Update(self, prev[i], arc.olabel, is_self_arc, is_filler,
                          score)],
        path |-> IF Wins(self, prev[i], score)
                 THEN [acc.path EXCEPT ![arc.next_state] =
                         PathExtend(ppath[i], arc.olabel, is_filler)]
                 ELSE acc.path,
        failed |-> UpdateFails(self, prev[i], is_self_arc, is_filler, score)]

\* The propagation loops of Spot from arc k of state i on.
RECURSIVE Propagate(_, _, _, _, _, _, _, _)
Propagate(fst, filler_table, prev, ppath, am_score, acc, i, k) ==
  IF i >= NumStates(fst) THEN acc
  ELSE IF ~prev[i].active \/ k > Len(ArcsOf(fst, i))
  THEN Propagate(fst, filler_table, prev, ppath, am_score, acc, i + 1, 1)
  ELSE Propagate(fst, filler_table, prev, ppath, am_score,
                 PropagateArc(fst, filler_table, prev, ppath, am_score, acc,
                              i, ArcsOf(fst, i)[k]),
                 i, k + 1)

\* ---------------------------------------------------------------- selection
\* FindBestStep without the test of active for a final state.
FindBestStepAnyFinal(fst, cur, b, i) ==
  LET better == cur[i].active /\ b.best_score < cur[i].score
      final == IsFinal(fst, i)
      take == final /\ (~b.reach_final \/ b.best_final_score < cur[i].score)
  IN [best_state |-> IF better THEN i ELSE b.best_state,
      best_score |-> IF better THEN cur[i].score ELSE b.best_score,
      best_final_state |-> IF take THEN i ELSE b.best_final_state,
      best_final_score |-> IF take THEN cur[i].score ELSE b.best_final_score,
      reach_final |-> b.reach_final \/ final]

\* One iteration of the "find best score" loop of Spot.
FindBestStep(fst, cur, b, i) ==
  LET better == cur[i].active /\ b.best_score < cur[i].score
      final == cur[i].active /\ IsFinal(fst, i)
      take == final /\ (~b.reach_final \/ b.best_final_score < cur[i].score)
  IN [best_state |-> IF better THEN i ELSE b.best_state,
      best_score |-> IF better THEN cur[i].score ELSE b.best_score,
      best_final_state |-> IF take THEN i ELSE b.best_final_state,
      best_final_score |-> IF take THEN cur[i].score ELSE b.best_final_score,
      reach_final |-> b.reach_final \/ final]

RECURSIVE FindBestFrom(_, _, _, _)
FindBestFrom(fst, cur, b, i) ==
  IF i >= NumStates(fst) THEN b
  ELSE FindBestFrom(fst, cur, FindBestStep(fst, cur, b, i), i + 1)

FindBest(fst, cur) ==
  FindBestFrom(fst, cur,
               [best_state |-> 0, best_score |-> cur[0].score,
                best_final_state |-> 0, best_final_score |-> 0,
                reach_final |-> FALSE],
               1)

\* ------------------------------------------------------------------ decoder
\* A decoder is the record of the data members of KeywordSpot that change:
\* [prev_tokens, cur_tokens, num_frames, spot_threshold, min_keyword_frames,
\*  min_frames_for_last_state].

AllReset(fst) == [i \in States(fst) |-> TokenReset]

\* Reset that leaves num_frames_ as it is.
ResetDecoderKeepCounter(fst, d) ==
  [d EXCEPT
     !.prev_tokens = [AllReset(fst) EXCEPT ![0].active = TRUE],
     !.cur_tokens = AllReset(fst)]

\* Reset without the loop over prev_tokens_.
ResetDecoderKeepTokens(fst, d) ==
  [d EXCEPT
     !.prev_tokens = [d.prev_tokens EXCEPT ![0].active = TRUE],
     !.cur_tokens = AllReset(fst),
     !.num_frames = 0]

\* KeywordSpot::Reset on the two buffers and the frame counter.
ResetDecoder(fst, d) ==
  [d EXCEPT
     !.prev_tokens = [AllReset(fst) EXCEPT ![0].active = TRUE],
     !.cur_tokens = AllReset(fst),
     !.num_frames = 0]

\* KeywordSpot::KeywordSpot.
Construct(fst) ==
  ResetDecoder(fst,
    [prev_tokens |-> AllReset(fst),
     cur_tokens |-> AllReset(fst),
     num_frames |-> 0,
     spot_threshold |-> DefaultSpotThreshold,
     min_keyword_frames |-> DefaultMinKeywordFrames,
     min_frames_for_last_state |-> DefaultMinFramesForLastState])

\* The return value and the two out-parameters of Spot.
NoReturn == [legal |-> FALSE, confidence |-> 0, keyword |-> 0]

\* The decision of Spot on the tokens of the current frame.
Decide(d, cur, sel) ==
  IF sel.reach_final
  THEN LET tok == cur[sel.best_final_state]
           confidence == Expf(tok.average_max_keyword_score)
       IN [legal |-> /\ tok.num_keyword_frames >= d.min_keyword_frames
                     /\ tok.num_frames_of_current_state >=
                          d.min_frames_for_last_state
                     /\ confidence > d.spot_threshold,
           confidence |-> confidence,
           keyword |-> tok.keyword]
  ELSE NoReturn

\* The guard without the test of is_filler.
GuardFiresAnyState(num_frames, ceiling, prev, best_state) ==
  num_frames > ceiling

\* The guard firing on reaching the ceiling, not on exceeding it.
GuardFiresAtCeiling(num_frames, ceiling, prev, best_state) ==
  num_frames >= ceiling /\ prev[best_state].is_filler

\* The overflow guard of Spot fires.
GuardFires(num_frames, ceiling, prev, best_state) ==
  num_frames > ceiling /\ prev[best_state].is_filler

\* A forced clear that re-arms the start state as Reset does.
ForceClearRearm(fst) == [AllReset(fst) EXCEPT ![0].active = TRUE]

\* The overflow guard's loop over prev_tokens_.
ForceClear(fst) == AllReset(fst)

\* Spot from the decision on: p is the result of the propagation loops, sel of
\* the "find best score" loop.
SpotFinish(fst, d, ceiling, p, sel, clear) ==
  [failed |-> p.failed,
   d |-> [d EXCEPT
            !.prev_tokens = IF clear THEN ForceClear(fst) ELSE p.cur,
            !.cur_tokens = AllReset(fst),
            !.num_frames = d.num_frames + 1],
   path |-> IF clear THEN [i \in States(fst) |-> PathReset] ELSE p.path,
   ret |-> Decide(d, p.cur, sel),
   frame |-> [cur |-> p.cur,
              path |-> p.path,
              best_state |-> sel.best_state,
              best_final_state |-> sel.best_final_state,
              reach_final |-> sel.reach_final,
              cleared |-> clear]]

SpotSelect(fst, d, ceiling, p, sel) ==
  SpotFinish(fst, d, ceiling, p, sel,
             GuardFires(d.num_frames + 1, ceiling, p.cur, sel.best_state))

SpotPropagated(fst, d, ceiling, p) ==
  SpotSelect(fst, d, ceiling, p, FindBest(fst, p.cur))

\* One call of KeywordSpot::Spot on decoder d: the decoder after the call,
\* what the call returned, its locals, and whether a CHECK failed.
SpotCall(fst, filler_table, d, ppath, am_score, ceiling) ==
  SpotPropagated(fst, d, ceiling,
    Propagate(fst, filler_table, d.prev_tokens, ppath, am_score,
              [cur |-> d.cur_tokens,
               path |-> [i \in States(fst) |-> PathReset],
               failed |-> FALSE],
              0, 1))

\* -------------------------------------------------------------------- state
VARIABLES
  fst,                        \* fst_
  filler_table,               \* filler_table_
  prev_tokens,                \* prev_tokens_
  cur_tokens,                 \* cur_tokens_
  num_frames,                 \* num_frames_
  spot_threshold,             \* spot_threshold_
  min_keyword_frames,         \* min_keyword_frames_
  min_frames_for_last_state,  \* min_frames_for_last_state_
  ret,        \* what the last Spot call returned
  frame,      \* the locals of the last Spot call; cur is cur_tokens_ before
              \* the swap
  path,       \* for each state, what the winning path into prev_tokens_ did
  op,         \* the last operation
  aborted,    \* a CHECK has failed
  fresh,      \* a second decoder, constructed over the same fst when this one
              \* was constructed or last Reset, and fed the same frames
  fresh_ret,  \* what the last Spot call on the second decoder returned
  fresh_aborted,  \* a CHECK has failed in the second decoder
  last_am_score,  \* the am_score argument of the last Spot call
  run,        \* for each phone, the number of Spot calls in a row, up to the
              \* last, in which it had the strictly highest score
  last_setup  \* the last operation other than Spot: "init", "Reset", "Set"

vars ==
  <<fst, filler_table, prev_tokens, cur_tokens, num_frames, spot_threshold,
    min_keyword_frames, min_frames_for_last_state, ret, frame, path, op,
    aborted, fresh, fresh_ret, fresh_aborted, last_am_score, run,
    last_setup>>

Kws ==
  [prev_tokens |-> prev_tokens,
   cur_tokens |-> cur_tokens,
   num_frames |-> num_frames,
   spot_threshold |-> spot_threshold,
   min_keyword_frames |-> min_keyword_frames,
   min_frames_for_last_state |-> min_frames_for_last_state]

NoFrame(f) ==
  [cur |-> AllReset(f),
   path |-> [i \in States(f) |-> PathReset],
   best_state |-> 0,
   best_final_state |-> 0,
   reach_final |-> FALSE,
   cleared |-> FALSE]

\* The phones of the am_score vectors.
Phones == 1 .. 3

NoRun == [p \in Phones |-> 0]

\* Phone p has the strictly highest score of the frame.
Dominant(am_score, p) ==
  \A q \in Phones \ {p} : am_score[q] < am_score[p]

RunAfter(r, am_score) ==
  [p \in Phones |-> IF Dominant(am_score, p) THEN r[p] + 1 ELSE 0]

\* The state after KeywordSpot(f, FillerTable).
InitWith(f) ==
  /\ fst = f
  /\ filler_table = FillerTable
  /\ prev_tokens = Construct(f).prev_tokens
  /\ cur_tokens = Construct(f).cur_tokens
  /\ num_frames = Construct(f).num_frames
  /\ spot_threshold = Construct(f).spot_threshold
  /\ min_keyword_frames = Construct(f).min_keyword_frames
  /\ min_frames_for_last_state = Construct(f).min_frames_for_last_state
  /\ ret = NoReturn
  /\ frame = NoFrame(f)
  /\ path = [i \in States(f) |-> PathReset]
  /\ op = "init"
  /\ aborted = FALSE
  /\ fresh = Construct(f)
  /\ fresh_ret = NoReturn
  /\ fresh_aborted = FALSE
  /\ last_am_score = <<>>
  /\ run = NoRun
  /\ last_setup = "init"

Init == \E f \in Fsts : InitWith(f)

\* ------------------------------------------------------------------ actions
SpotThresholds == {DefaultSpotThreshold, Scale}
MinKeywordFrames == {DefaultMinKeywordFrames, 3}
MinFramesForLastState == {DefaultMinFramesForLastState, 2, 0}

SetSpotThreshold(threshold) ==
  /\ ~aborted
  /\ spot_threshold' = threshold
  /\ op' = "Set"
  /\ last_setup' = "Set"
  /\ UNCHANGED <<fst, filler_table, prev_tokens, cur_tokens, num_frames,
                 min_keyword_frames, min_frames_for_last_state, ret, frame,
                 path, aborted, fresh, fresh_ret, fresh_aborted, last_am_score,
                 run>>

SetMinKeywordFrames(frames) ==
  /\ ~aborted
  /\ min_keyword_frames' = frames
  /\ op' = "Set"
  /\ last_setup' = "Set"
  /\ UNCHANGED <<fst, filler_table, prev_tokens, cur_tokens, num_frames,
                 spot_threshold, min_frames_for_last_state, ret, frame,
                 path, aborted, fresh, fresh_ret, fresh_aborted, last_am_score,
                 run>>

SetMinFramesForLastState(frames) ==
  /\ ~aborted
  /\ min_frames_for_last_state' = frames
  /\ op' = "Set"
  /\ last_setup' = "Set"
  /\ UNCHANGED <<fst, filler_table, prev_tokens, cur_tokens, num_frames,
                 spot_threshold, min_keyword_frames, ret, frame,
                 path, aborted, fresh, fresh_ret, fresh_aborted, last_am_score,
                 run>>

\* Reset() on the decoder; a second decoder is constructed beside it.
Reset ==
  /\ ~aborted
  /\ prev_tokens' = ResetDecoder(fst, Kws).prev_tokens
  /\ cur_tokens' = ResetDecoder(fst, Kws).cur_tokens
  /\ num_frames' = ResetDecoder(fst, Kws).num_frames
  /\ path' = [i \in States(fst) |-> PathReset]
  /\ ret' = NoReturn
  /\ frame' = NoFrame(fst)
  /\ op' = "Reset"
  /\ fresh' = Construct(fst)
  /\ fresh_ret' = NoReturn
  /\ last_am_score' = <<>>
  /\ run' = NoRun
  /\ last_setup' = "Reset"
  /\ UNCHANGED <<fst, filler_table, spot_threshold, min_keyword_frames,
                 min_frames_for_last_state, aborted, fresh_aborted>>

\* Spot(am_score, Len(am_score), &confidence, &keyword) on the decoder and
\* Spot(other_score, ...) on the second decoder, with the overflow guard at
\* ceiling.
SpotBoth(am_score, other_score, ceiling) ==
  /\ ~aborted
  /\ ~fresh_aborted
  /\ \E r \in {SpotCall(fst, filler_table, Kws, path, am_score, ceiling)} :
        IF r.failed
        THEN /\ aborted' = TRUE
             /\ UNCHANGED <<prev_tokens, cur_tokens, num_frames, ret, frame,
                            path, run>>
        ELSE /\ prev_tokens' = r.d.prev_tokens
             /\ cur_tokens' = r.d.cur_tokens
             /\ num_frames' = r.d.num_frames
             /\ ret' = r.ret
             /\ frame' = r.frame
             /\ path' = r.path
             /\ run' = RunAfter(run, am_score)
             /\ UNCHANGED aborted
  /\ \E s \in {SpotCall(fst, filler_table, fresh, path, other_score, ceiling)} :
        IF s.failed
        THEN /\ fresh_aborted' = TRUE
             /\ UNCHANGED <<fresh, fresh_ret>>
        ELSE /\ fresh' = s.d
             /\ fresh_ret' = s.ret
             /\ UNCHANGED fresh_aborted
  /\ op' = "Spot"
  /\ last_am_score' = am_score
  /\ UNCHANGED <<fst, filler_table, spot_threshold, min_keyword_frames,
                 min_frames_for_last_state, last_setup>>

SpotWith(am_score, ceiling) == SpotBoth(am_score, am_score, ceiling)

Spot ==
  /\ num_frames < MaxFrames
  /\ \E am_score \in Frames : SpotWith(am_score, OverflowCeiling)

Next ==
  \/ \E threshold \in SpotThresholds : SetSpotThreshold(threshold)
  \/ \E frames \in MinKeywordFrames : SetMinKeywordFrames(frames)
  \/ \E frames \in MinFramesForLastState : SetMinFramesForLastState(frames)
  \/ Reset
  \/ Spot

Spec == Init /\ [][Next]_vars

\* ------------------------------- the decoder under its default parameters
\* Spot and Reset only: the parameters stay as constructed.
DecodeInit == Init

DecodeNext == Reset \/ Spot

DecodeSpec == DecodeInit /\ [][DecodeNext]_vars

\* ------------------------------------------- the legality-gating scenario
GateInit == InitWith(GateFst)

GateSpot ==
  /\ num_frames < MaxGateFrames
  /\ \E am_score \in GateFramesAt(num_frames + 1) :
        SpotWith(am_score, kMaxTokenPassingFrames)

GateNext ==
  \/ SetSpotThreshold(DefaultSpotThreshold)
  \/ SetMinKeywordFrames(3)
  \/ SetMinFramesForLastState(2)
  \/ GateSpot

GateSpec == GateInit /\ [][GateNext]_vars


\* ------------------------------------------------------ a long filler stream
\* Spot calls explored after construction or Reset in the long stream.
MaxLongFrames == kMaxTokenPassingFrames + 2

\* The frame of the long stream: the filler phone dominant.
LongFrame == <<950, 500, 500>>

LongInit == InitWith(GateFst)

LongSpot ==
  /\ num_frames < MaxLongFrames
  /\ SpotWith(LongFrame, kMaxTokenPassingFrames)

LongNext ==
  \/ LongSpot
  \/ Reset

LongSpec == LongInit /\ [][LongNext]_vars

\* ------------------------------------- two decoders on different streams
\* Frames fed to each of the two decoders.
MaxTwinFrames == 3

TwinInit == Init

\* One frame to each decoder, the second decoder fed a frame of its own.
TwinSpot ==
  /\ num_frames < MaxTwinFrames
  /\ \E am_score \in Frames : \E other_score \in Frames :
        SpotBoth(am_score, other_score, OverflowCeiling)

TwinNext == TwinSpot

TwinSpec == TwinInit /\ [][TwinNext]_vars

\* ------------------------------------------------------------------- claims
\* A Spot call has returned and is the last operation.
Returned == op = "Spot" /\ ~aborted

ActiveFinals(cur) == {i \in States(fst) : cur[i].active /\ IsFinal(fst, i)}

\* The best-scoring active final-state hypothesis of the frame, the one of
\* lowest index among equals.
BestFinals(cur) ==
  {i \in ActiveFinals(cur) :
     \A j \in ActiveFinals(cur) : cur[j].score <= cur[i].score}

BestFinal(cur) ==
  CHOOSE i \in BestFinals(cur) : \A j \in BestFinals(cur) : i <= j

Satisfies(tok) ==
  /\ tok.num_keyword_frames >= min_keyword_frames
  /\ tok.num_frames_of_current_state >= min_frames_for_last_state
  /\ Expf(tok.average_max_keyword_score) > spot_threshold

\* C1: Spot returns true iff some final state is active in the current frame
\* and its best-scoring hypothesis has num_keyword_frames >=
\* min_keyword_frames, num_frames_of_current_state >=
\* min_frames_for_last_state and confidence > spot_threshold.
C1_SpotIffLegal ==
  Returned =>
    (ret.legal <=>
       (ActiveFinals(frame.cur) # {} /\ Satisfies(frame.cur[BestFinal(frame.cur)])))

\* C2: whenever a final state (state 0 included) is active in the current
\* frame, Spot reports exp(average_max_keyword_score) and the keyword of the
\* best-scoring active final-state hypothesis.
C2_ReportsBestFinal ==
  (Returned /\ ActiveFinals(frame.cur) # {}) =>
    /\ ret.confidence =
         Expf(frame.cur[BestFinal(frame.cur)].average_max_keyword_score)
    /\ ret.keyword = frame.cur[BestFinal(frame.cur)].keyword

\* C3: a Spot call in which no final state is active in the current frame
\* returns spotted = false, confidence = 0 and keyword = 0.
C3_NoFinalNoOutput ==
  (Returned /\ ActiveFinals(frame.cur) = {}) =>
    (ret.legal = FALSE /\ ret.confidence = 0 /\ ret.keyword = 0)

C3_Witness ==
  /\ Returned
  /\ ActiveFinals(frame.cur) = {}
  /\ \E i \in States(fst) :
       frame.cur[i].active /\ frame.cur[i].num_keyword_frames > 0

\* C1, C2 where the start state is not final (not a claim; a cross-check).
StartNotFinal_C1C2 ==
  ~IsFinal(fst, 0) => (C1_SpotIffLegal /\ C2_ReportsBestFinal)

\* The three parameters are those of the second decoder.
SameParameters ==
  /\ spot_threshold = fresh.spot_threshold
  /\ min_keyword_frames = fresh.min_keyword_frames
  /\ min_frames_for_last_state = fresh.min_frames_for_last_state

\* C4: after any Spot and setter calls, Reset() and then a frame sequence
\* gives, frame by frame, the outputs of a freshly constructed decoder fed the
\* same frames.
C4_ResetReplaysFresh ==
  (Returned /\ last_setup = "Reset") => ret = fresh_ret

\* C4 as amended: the confidence and keyword outputs are those of the fresh
\* decoder, and so is spotted when the three parameters have the values the
\* fresh decoder has.
C4_ResetReplaysFreshParams ==
  (Returned /\ last_setup = "Reset") =>
    /\ ret.confidence = fresh_ret.confidence
    /\ ret.keyword = fresh_ret.keyword
    /\ SameParameters => ret.legal = fresh_ret.legal

C4_Witness ==
  /\ Returned
  /\ last_setup = "Reset"
  /\ SameParameters
  /\ ret.legal
  /\ fresh_ret.legal

\* C5: after construction or Reset(), exactly state 0 is active in the
\* previous-frame buffer, every hypothesis of both buffers has zero
\* statistics, the current-frame buffer is inactive, and the frame counter is
\* 0.
ZeroStatistics(tok) ==
  /\ tok.is_filler = TRUE
  /\ tok.score = 0
  /\ tok.num_keyword_frames = 0
  /\ tok.average_keyword_score = 0
  /\ tok.keyword = 0
  /\ tok.num_frames_of_current_state = 0
  /\ tok.num_keyword_states = 0
  /\ tok.max_score_of_current_state = 0
  /\ tok.average_max_keyword_score = 0
  /\ tok.average_max_keyword_score_before = 0

Armed ==
  /\ \A i \in States(fst) :
       /\ prev_tokens[i].active = (i = 0)
       /\ ZeroStatistics(prev_tokens[i])
       /\ cur_tokens[i].active = FALSE
       /\ ZeroStatistics(cur_tokens[i])
  /\ num_frames = 0

C5_ResetArms == (op \in {"init", "Reset"}) => Armed

C5_Witness ==
  /\ op = "Reset"
  /\ Armed
  /\ min_frames_for_last_state # DefaultMinFramesForLastState

\* C6: the keyword of every active hypothesis is the last non-zero olabel on
\* the winning path into its state.
C6_KeywordLatched ==
  \A i \in States(fst) :
    prev_tokens[i].active => prev_tokens[i].keyword = path[i].keyword

\* C7: num_keyword_frames of every active hypothesis is the number of
\* non-filler arcs on the winning path into its state.
C7_KeywordFramesOfPath ==
  \A i \in States(fst) :
    prev_tokens[i].active =>
      prev_tokens[i].num_keyword_frames = path[i].num_keyword_frames

\* The parameters of the legality-gating scenario are in effect.
GateParameters ==
  /\ fst = GateFst
  /\ min_keyword_frames = 3
  /\ min_frames_for_last_state = 2
  /\ spot_threshold = Scale \div 2

\* C8: in the legality-gating scenario Spot returns false on the first
\* phone-3 frame (the 8th) and true with keyword 7 on the second (the 9th).
C8_GateSpotsOnSecondFrame ==
  (Returned /\ GateParameters) =>
    /\ num_frames = 8 => ret.legal = FALSE
    /\ num_frames = 9 => (ret.legal = TRUE /\ ret.keyword = 7)

C8_Witness ==
  /\ Returned
  /\ GateParameters
  /\ num_frames = 9
  /\ ret.legal = TRUE
  /\ ret.keyword = 7
  /\ ret.confidence = 950

\* C9: in the scenario the hypothesis at state 2 has num_keyword_frames = 2
\* and num_frames_of_current_state = 1 on the first phone-3 frame, and 3 and 2
\* after the second.
C9_GateCounters ==
  (Returned /\ fst = GateFst) =>
    /\ num_frames = 8 =>
         /\ frame.cur[2].num_keyword_frames = 2
         /\ frame.cur[2].num_frames_of_current_state = 1
    /\ num_frames = 9 =>
         /\ frame.cur[2].num_keyword_frames = 3
         /\ frame.cur[2].num_frames_of_current_state = 2

\* C9 as amended: num_keyword_frames is 3 on the first phone-3 frame (the arc
\* into state 2 is a keyword frame too) and 4 after the second; the dwell
\* counts are 1 and 2.
C9_GateCountersAmended ==
  (Returned /\ fst = GateFst) =>
    /\ num_frames = 8 =>
         /\ frame.cur[2].active
         /\ frame.cur[2].num_keyword_frames = 3
         /\ frame.cur[2].num_frames_of_current_state = 1
    /\ num_frames = 9 =>
         /\ frame.cur[2].active
         /\ frame.cur[2].num_keyword_frames = 4
         /\ frame.cur[2].num_frames_of_current_state = 2

C9_Witness ==
  /\ Returned
  /\ fst = GateFst
  /\ num_frames = 9
  /\ frame.cur[2].num_keyword_frames = 4
  /\ frame.cur[2].num_frames_of_current_state = 2

\* No state is active in the previous-frame buffer.
Stalled == \A i \in States(fst) : ~prev_tokens[i].active

\* C10: once the overflow guard has cleared the buffer no state is active,
\* and every later Spot call returns without a failed CHECK, with spotted =
\* false, confidence = 0 and keyword = 0, and leaves no state active, until
\* Reset().
C10_StalledAfterClear ==
  /\ []((Returned /\ frame.cleared) => Stalled)
  /\ [][(Stalled /\ op' = "Spot") =>
          (~aborted' /\ ret' = NoReturn /\ Stalled')]_vars

C10_Witness ==
  /\ Returned
  /\ Stalled
  /\ num_frames >= OverflowCeiling + 2

\* C11: whenever the overflow guard clears the buffer, no hypothesis active in
\* that frame is on a keyword path (is_filler = false or num_keyword_frames >
\* 0).
C11_GuardNotMidKeyword ==
  (Returned /\ frame.cleared) =>
    \A i \in States(fst) :
      frame.cur[i].active =>
        (frame.cur[i].is_filler /\ frame.cur[i].num_keyword_frames = 0)

\* C11 as amended: whenever the guard clears the buffer, the hypothesis of the
\* state the guard consults (best_state) is filler-classified.
C11_GuardConsultsFiller ==
  (Returned /\ frame.cleared) => frame.cur[frame.best_state].is_filler

C11_Witness ==
  /\ Returned
  /\ frame.cleared
  /\ frame.cur[frame.best_state].active
  /\ \E i \in States(fst) : frame.cur[i].active /\ ~frame.cur[i].is_filler

\* C12: the guard clears the buffer only on a call at which the frame counter
\* exceeds 600,000.
C12_GuardAfter600000 ==
  (Returned /\ frame.cleared) => num_frames > 600000

\* C12 as amended: the guard clears the buffer only on a call at which the
\* frame counter exceeds kMaxTokenPassingFrames = 60,000; the counter grows by
\* exactly 1 per Spot call and only Reset sets it back, to 0.
C12_GuardAfterCeiling ==
  /\ []((Returned /\ frame.cleared) => num_frames > kMaxTokenPassingFrames)
  /\ [][/\ (op' = "Spot" /\ ~aborted') => num_frames' = num_frames + 1
        /\ num_frames' < num_frames => (op' = "Reset" /\ num_frames' = 0)
        /\ op' \notin {"Spot", "Reset"} => num_frames' = num_frames]_vars

C12_Witness ==
  /\ Returned
  /\ frame.cleared
  /\ num_frames = kMaxTokenPassingFrames + 1

\* State s has a non-filler self-loop on phone p.
SelfLoopOn(s, p) ==
  /\ ~IsFillerPhone(filler_table, p)
  /\ \E k \in 1 .. Len(ArcsOf(fst, s)) :
       ArcsOf(fst, s)[k].next_state = s /\ ArcsOf(fst, s)[k].ilabel = p

\* State s is entered from another state over the non-filler phone p.
EnteredOver(s, p) ==
  /\ ~IsFillerPhone(filler_table, p)
  /\ \E u \in States(fst) \ {s} : \E k \in 1 .. Len(ArcsOf(fst, u)) :
       ArcsOf(fst, u)[k].next_state = s /\ ArcsOf(fst, u)[k].ilabel = p

\* Every arc into s other than its self-loops leaves the start state.
OnlyFromStart(s) ==
  /\ s # 0
  /\ \A u \in States(fst) \ {s, 0} : \A k \in 1 .. Len(ArcsOf(fst, u)) :
       ArcsOf(fst, u)[k].next_state # s

\* No arc into the start state is on phone p.
StartNotEnteredOn(p) ==
  \A u \in States(fst) : \A k \in 1 .. Len(ArcsOf(fst, u)) :
    ArcsOf(fst, u)[k].next_state = 0 => ArcsOf(fst, u)[k].ilabel # p

\* The overflow guard has not cleared the buffer before the last call.
BeforeGuard == num_frames <= OverflowCeiling + 1

\* C13: for a state s entered over a keyword phone p with a non-filler
\* self-loop on p, after the N-th of N >= 1 consecutive frames in which p has
\* the strictly highest score, num_frames_of_current_state of s is N, the
\* predecessor (here the start state) being active all along.
C13_DwellIsRun ==
  \A s \in States(fst) : \A p \in Phones :
    (Returned /\ BeforeGuard /\ SelfLoopOn(s, p) /\ EnteredOver(s, p)
       /\ OnlyFromStart(s) /\ StartNotEnteredOn(p)
       /\ frame.cur[0].active /\ frame.cur[s].active
       /\ run[p] >= 1) =>
      frame.cur[s].num_frames_of_current_state = run[p]

\* C13 as amended: when the run starts with the first frame after
\* construction or Reset, every arc into s other than the self-loop leaves
\* the start state, and no arc into the start state is on p, then
\* num_frames_of_current_state of s is N after the N-th frame.
C13_DwellIsRunFromStart ==
  \A s \in States(fst) : \A p \in Phones :
    (Returned /\ BeforeGuard /\ SelfLoopOn(s, p) /\ EnteredOver(s, p)
       /\ OnlyFromStart(s) /\ StartNotEnteredOn(p)
       /\ run[p] >= 1 /\ run[p] = num_frames) =>
      /\ frame.cur[s].active
      /\ frame.cur[s].num_frames_of_current_state = run[p]

C13_Witness ==
  \E s \in States(fst) : \E p \in Phones :
    /\ Returned
    /\ SelfLoopOn(s, p) /\ EnteredOver(s, p)
    /\ OnlyFromStart(s) /\ StartNotEnteredOn(p)
    /\ run[p] = 3 /\ num_frames = 3
    /\ frame.cur[0].active
    /\ frame.cur[s].num_frames_of_current_state = 3

\* The transducer has a non-filler self-loop at the start state or at a state
\* that a filler arc enters.
UnguardedSelfLoop ==
  \E s \in States(fst) : \E p \in Phones :
    /\ SelfLoopOn(s, p)
    /\ \/ s = 0
       \/ \E u \in States(fst) : \E k \in 1 .. Len(ArcsOf(fst, u)) :
            /\ ArcsOf(fst, u)[k].next_state = s
            /\ IsFillerPhone(filler_table, ArcsOf(fst, u)[k].ilabel)

\* C14: for a fixed transducer and filler set, of two score-frame sequences of
\* equal length either both make the self-loop CHECK fail or neither does.
C14_AssertionByFstAlone == aborted = fresh_aborted

\* C14 as amended: the CHECK fails only on a transducer with a non-filler
\* self-loop at the start state or at a state that a filler arc enters; there
\* the failure depends on the scores.
C14_AssertionOnlyIfUnguarded ==
  (aborted \/ fresh_aborted) => UnguardedSelfLoop

C14_Witness ==
  /\ aborted
  /\ ~fresh_aborted
  /\ fresh.num_frames = num_frames + 1
  /\ UnguardedSelfLoop

\* The step is a call of Spot that returned.
SpotReturns == num_frames' = num_frames + 1

\* The arcs into state s that leave a state active before the call, as
\* <<source state, arc index>>, in the order the call attempts them.
Incoming(s) ==
  UNION { { <<u, k>> : k \in { j \in 1 .. Len(ArcsOf(fst, u)) :
                                 ArcsOf(fst, u)[j].next_state = s } } :
          u \in { v \in States(fst) : prev_tokens[v].active } }

\* The candidate score arc a offers: source score plus ln of the frame score.
Candidate(a) ==
  prev_tokens[a[1]].score + Logf(last_am_score'[ArcsOf(fst, a[1])[a[2]].ilabel])

\* C15: with every frame score at most 1, after a Spot call each active
\* state's score is the candidate of an arc from a previously active state and
\* at most that state's score, at most the highest score among the previously
\* active states, and at most 0.
C15_ScoreNonIncreasing ==
  [][SpotReturns =>
       \A s \in States(fst) :
         frame'.cur[s].active =>
           /\ \E a \in Incoming(s) :
                /\ frame'.cur[s].score = Candidate(a)
                /\ frame'.cur[s].score <= prev_tokens[a[1]].score
           /\ \E u \in States(fst) :
                /\ prev_tokens[u].active
                /\ \A v \in States(fst) :
                     prev_tokens[v].active =>
                       prev_tokens[v].score <= prev_tokens[u].score
                /\ frame'.cur[s].score <= prev_tokens[u].score
           /\ frame'.cur[s].score <= 0]_vars

C15_Witness ==
  /\ op = "Spot"
  /\ ~aborted
  /\ num_frames >= 2
  /\ \A p \in Phones : last_am_score[p] < Scale
  /\ \E s \in States(fst) : \E t \in States(fst) :
       /\ frame.cur[s].active
       /\ frame.cur[t].active
       /\ frame.cur[s].score < frame.cur[t].score
       /\ frame.cur[t].score < 0

\* C16: after a Spot call on which the overflow guard does not fire, the
\* states active in the previous-frame buffer are exactly the destinations of
\* the arcs leaving the states active before the call, each with the highest
\* candidate score among its incoming arcs.
C16_ActiveSetIsViterbi ==
  [][(SpotReturns /\ ~frame'.cleared) =>
       \A s \in States(fst) :
         /\ prev_tokens'[s].active <=> Incoming(s) # {}
         /\ Incoming(s) # {} =>
              /\ \E a \in Incoming(s) : prev_tokens'[s].score = Candidate(a)
              /\ \A a \in Incoming(s) : Candidate(a) <= prev_tokens'[s].score]_vars

C16_Witness ==
  /\ op = "Spot"
  /\ ~aborted
  /\ ~frame.cleared
  /\ \E s \in States(fst) : \E t \in States(fst) : \E u \in States(fst) :
       /\ prev_tokens[s].active
       /\ prev_tokens[t].active
       /\ prev_tokens[s].score < prev_tokens[t].score
       /\ ~prev_tokens[u].active

\* Arc a is attempted no later than arc b: sources in ascending order, the
\* arcs of one source in enumeration order.
Precedes(a, b) == a[1] < b[1] \/ (a[1] = b[1] /\ a[2] <= b[2])

\* The incoming arcs of s that offer the highest candidate score.
BestIncoming(s) ==
  { a \in Incoming(s) : \A b \in Incoming(s) : Candidate(b) <= Candidate(a) }

\* The first attempted of them.
FirstBest(s) ==
  CHOOSE a \in BestIncoming(s) : \A b \in BestIncoming(s) : Precedes(a, b)

\* C17: among updates of equal candidate score into one state the first
\* applied keeps the score and the keyword statistics: after a Spot call each
\* state has the score of the first attempted arc among those with the highest
\* candidate, and, that arc being a keyword arc, the counters derived from the
\* source of that arc.
C17_FirstWinsTies ==
  [][SpotReturns =>
       \A s \in States(fst) :
         Incoming(s) # {} =>
           LET a == FirstBest(s)
               arc == ArcsOf(fst, a[1])[a[2]]
               src == prev_tokens[a[1]]
               tok == frame'.cur[s]
           IN /\ tok.score = Candidate(a)
              /\ ~IsFillerPhone(filler_table, arc.ilabel) =>
                   /\ tok.num_keyword_frames = src.num_keyword_frames + 1
                   /\ tok.num_frames_of_current_state =
                        (IF a[1] = s THEN src.num_frames_of_current_state + 1
                         ELSE 1)
                   /\ tok.num_keyword_states =
                        (IF a[1] = s THEN src.num_keyword_states
                         ELSE src.num_keyword_states + 1)]_vars

\* On GateFst state 2 has score 0 after two frames only if state 1 had score
\* 0 after the first; with state 0 at score 0 the arcs 0 -> 1 and 1 -> 1 then
\* tied in the second frame, and the entering arc, attempted first, kept its
\* statistics (dwell 1, not 2).
C17_Witness ==
  /\ fst = GateFst
  /\ op = "Spot"
  /\ ~aborted
  /\ num_frames = 2
  /\ prev_tokens[2].active
  /\ prev_tokens[2].score = 0
  /\ prev_tokens[0].score = 0
  /\ prev_tokens[1].score = 0
  /\ prev_tokens[1].num_frames_of_current_state = 1

\* The last attempted arc into s.
LastIncoming(s) ==
  CHOOSE a \in Incoming(s) : \A b \in Incoming(s) : Precedes(b, a)

\* C18: every Update sets active and is_filler, and a losing Update nothing
\* else: after a Spot call each state an arc was attempted into is active with
\* the filler classification of the last attempted arc, while its score and,
\* the owning arc being a keyword arc, its keyword-frame count are those of
\* the first arc with the highest candidate.
C18_FlagOfLastAttempt ==
  [][SpotReturns =>
       \A s \in States(fst) :
         Incoming(s) # {} =>
           LET last == LastIncoming(s)
               own == FirstBest(s)
               tok == frame'.cur[s]
           IN /\ tok.active
              /\ tok.is_filler =
                   IsFillerPhone(filler_table,
                                 ArcsOf(fst, last[1])[last[2]].ilabel)
              /\ tok.score = Candidate(own)
              /\ ~IsFillerPhone(filler_table,
                                ArcsOf(fst, own[1])[own[2]].ilabel) =>
                   tok.num_keyword_frames =
                     prev_tokens[own[1]].num_keyword_frames + 1]_vars

\* On LoopFst state 2 is entered from state 1 only, over keyword phone 3 and
\* then over filler phone 1: with phone 3 scoring higher the keyword arc owns
\* the token and the losing filler arc leaves its classification.
C18_Witness ==
  /\ fst = LoopFst
  /\ op = "Spot"
  /\ ~aborted
  /\ last_am_score # <<>>
  /\ last_am_score[3] > last_am_score[1]
  /\ prev_tokens[2].active
  /\ prev_tokens[2].is_filler
  /\ prev_tokens[2].num_keyword_frames >= 2

\* C19: on a call that reaches the guard's test of is_filler, the state it
\* consults (best_state) is active in the frame just decoded and no active
\* state of that frame has a higher score.
C19_GuardConsultsBestActive ==
  (Returned /\ num_frames > OverflowCeiling) =>
    /\ frame.cur[frame.best_state].active
    /\ \A i \in States(fst) :
         frame.cur[i].active =>
           frame.cur[i].score <= frame.cur[frame.best_state].score

\* The keyword counters of one hypothesis are consistent with each other and
\* with the number of Spot calls since construction or the last Reset.
CountersConsistent(tok) ==
  /\ 0 <= tok.num_keyword_states
  /\ tok.num_keyword_states <= tok.num_keyword_frames
  /\ 0 <= tok.num_frames_of_current_state
  /\ tok.num_frames_of_current_state <= tok.num_keyword_frames
  /\ tok.num_keyword_frames <= num_frames
  /\ tok.num_keyword_frames = 0 <=> tok.num_keyword_states = 0

\* C20: while no CHECK has failed, every hypothesis of either buffer, and of
\* the current-frame buffer as the last Spot call left it before the swap, has
\* 0 <= num_keyword_states <= num_keyword_frames, 0 <=
\* num_frames_of_current_state <= num_keyword_frames, num_keyword_frames at
\* most the Spot calls since the last Reset, and num_keyword_frames = 0
\* exactly when num_keyword_states = 0.
C20_CountersConsistent ==
  ~aborted =>
    \A s \in States(fst) :
      /\ CountersConsistent(prev_tokens[s])
      /\ CountersConsistent(cur_tokens[s])
      /\ CountersConsistent(frame.cur[s])

C20_Witness ==
  /\ Returned
  /\ \E s \in States(fst) :
       /\ prev_tokens[s].active
       /\ prev_tokens[s].num_keyword_states >= 2
       /\ prev_tokens[s].num_frames_of_current_state >= 2
       /\ prev_tokens[s].num_keyword_frames < num_frames
  /\ \E s \in States(fst) :
       /\ prev_tokens[s].active
       /\ prev_tokens[s].num_keyword_frames = 0
====
